---- MODULE Spec2Model ----
(***************************************************************************)
(* Model of headless/load_session.cc (hardour): the lifecycle controller   *)
(* that parses the command line, brings the AudioEngine and a Session up,  *)
(* registers three shutdown sources on the CrossThreadChannel xthread,     *)
(* blocks in xthread.receive and then runs the fixed teardown sequence.    *)
(*                                                                         *)
(* The controller (main and load_session) is modelled statement by         *)
(* statement with a program counter pc; the callbacks access_action,       *)
(* engine_halted and wearedone run in their own contexts and interleave    *)
(* with it.  `last` records the most recent call: context, function,       *)
(* arguments and the ordered effects it performed.                         *)
(***************************************************************************)
EXTENDS Integers, Sequences, FiniteSets, TLC

VARIABLES
    opts,              \* option characters getopt_long has still to return
    npos,              \* number of positional (non-option) arguments in argv
    argc,              \* argc as passed to main
    optind,            \* getopt's optind
    pc,                \* position of the controller thread in main/load_session
    status,            \* exit status of the process, NoExit while it runs
    cout,              \* texts written to std::cout
    cerr,              \* texts written to std::cerr
    initCalled,        \* ARDOUR::init has been called
    engine,            \* state of the AudioEngine instance
    bound,             \* the engine holds a session (set_session .. remove_session)
    session,           \* state of the Session object `s` points to
    engineCreated,     \* number of AudioEngine::create calls
    engineDestroyed,   \* number of AudioEngine::destroy calls
    sessionCreated,    \* number of Session objects constructed
    sessionDestroyed,  \* number of Session objects deleted
    registered,        \* sources connected to their callback
    transport,         \* number of request_transport_speed calls
    pending,           \* bytes written to xthread and not yet read
    delivers,          \* number of completed xthread.deliver calls
    exits_wait,        \* number of times the receive loop was left
    teardown,          \* teardown steps executed so far, in order
    last               \* the most recent call

argvVars == <<opts, npos, argc, optind>>
ioVars   == <<cout, cerr>>
objVars  == <<engine, bound, session, engineCreated, engineDestroyed,
              sessionCreated, sessionDestroyed>>
chanVars == <<pending, delivers>>
ctlVars  == <<pc, status, initCalled, registered, transport, exits_wait, teardown>>
vars     == <<opts, npos, argc, optind, pc, status, cout, cerr, initCalled,
              engine, bound, session, engineCreated, engineDestroyed,
              sessionCreated, sessionDestroyed, registered, transport,
              pending, delivers, exits_wait, teardown, last>>

----------------------------------------------------------------------------
(* Bounds of the model *)

MaxOpts      == 2     \* options on the command line
MaxPos       == 3     \* positional arguments on the command line
MaxDelivers  == 5     \* deliver calls in one run
PipeCapacity == 2     \* bytes xthread holds before a non-blocking write fails

----------------------------------------------------------------------------
(* Program constants *)

NoExit       == -1    \* the process has not exited
EXIT_FAILURE == 1
SIGINT       == 2
SIGTERM      == 15
SIGSEGV      == 11

\* exit status the shell reports for a process killed by signal sig
Killed(sig) == 128 + sig

\* optstring "vhBdD:c:VOU:P"; "?" is what getopt_long returns for anything else
optstring == {"v", "h", "B", "d", "D", "c", "V", "O", "U", "P"}
OptChars  == optstring \cup {"?"}

\* argv words an option takes: D, c and U carry an argument
Tokens(c) == IF c \in {"D", "c", "U"} THEN 2 ELSE 1

RECURSIVE TokensOf(_)
TokensOf(s) == IF s = <<>> THEN 0 ELSE Tokens(Head(s)) + TokensOf(Tail(s))

OptSeqs == UNION {[1..n -> OptChars] : n \in 0..MaxOpts}

\* arguments the callbacks are invoked with
Groups  == {"Common", "Editor"}
Items   == {"Quit", "Save"}
Reasons == {"NULL", "", "device removed"}    \* "NULL": reason == 0
Signals == {"SIGINT", "SIGTERM"}
SigNum(sig) == IF sig = "SIGINT" THEN SIGINT ELSE SIGTERM

TeardownSeq == <<"remove_session", "delete_session", "engine_stop", "engine_destroy">>

HelpText    == "Usage: hardour [OPTIONS]... DIR SNAPSHOT_NAME"
VersionText == "PROGRAM_NAME VERSIONSTRING"

Call(ctx, op, group, item, reason, effects) ==
    [ctx |-> ctx, op |-> op, group |-> group, item |-> item,
     reason |-> reason, effects |-> effects]

MainCall(op) == Call("main", op, "", "", "", <<>>)

exit(n) == status' = n

Running == status = NoExit

----------------------------------------------------------------------------
(* CrossThreadChannel xthread (true): a non-blocking pipe *)

\* variant: the channel is constructed blocking
xthread_blocking == FALSE

\* static CrossThreadChannel xthread (true): the argument is non_blocking
xthread_non_blocking == TRUE

\* a deliver call can complete: on a blocking channel the write waits
\* while the pipe is full
CanDeliver(p) == xthread_non_blocking \/ p < PipeCapacity

\* deliver: write one byte; the write fails when the pipe is full
deliver(p) == IF p < PipeCapacity THEN p + 1 ELSE p

\* results of receive (msg, true): 1 a byte was read, 0 nothing was read,
\* -1 the poll failed.  A byte can only be read when one is pending.
ReceiveResults(p) == IF p > 0 THEN {1, -1} ELSE {0, -1}

----------------------------------------------------------------------------
Init ==
    /\ opts \in OptSeqs
    /\ npos \in 0..MaxPos
    /\ argc = 1 + TokensOf(opts) + npos
    /\ optind = 1
    /\ pc = "getopt"
    /\ status = NoExit
    /\ cout = {}
    /\ cerr = {}
    /\ initCalled = FALSE
    /\ engine = "none"
    /\ bound = FALSE
    /\ session = "null"
    /\ engineCreated = 0
    /\ engineDestroyed = 0
    /\ sessionCreated = 0
    /\ sessionDestroyed = 0
    /\ registered = {}
    /\ transport = 0
    /\ pending = 0
    /\ delivers = 0
    /\ exits_wait = 0
    /\ teardown = <<>>
    /\ last = MainCall("start")

----------------------------------------------------------------------------
(* main: option parsing, lines 155-217 *)

main_getopt ==
    /\ Running /\ pc = "getopt"
    /\ last' = MainCall("getopt_long")
    /\ UNCHANGED <<npos, argc, cerr, initCalled, registered, transport,
                   exits_wait, teardown>>
    /\ UNCHANGED <<objVars, chanVars>>
    /\ IF opts = <<>>
       THEN \* c == -1: break
            /\ pc' = "argc_check"
            /\ UNCHANGED <<opts, optind, cout, status>>
       ELSE LET c == Head(opts) IN
            /\ opts' = Tail(opts)
            /\ optind' = optind + Tokens(c)
            /\ pc' = pc
            /\ CASE c = "v" -> cout' = cout \cup {VersionText} /\ exit(0)
                 [] c = "h" -> cout' = cout \cup {HelpText} /\ exit(0)
                 [] c = "D" -> /\ cout' = cout
                               /\ \E parse_debug_options \in BOOLEAN :
                                    IF parse_debug_options
                                    THEN exit(1)
                                    ELSE status' = status
                 [] c \in {"c", "B", "d", "O", "P", "V"} ->
                               cout' = cout /\ status' = status
                 [] OTHER   -> cout' = cout \cup {HelpText} /\ exit(1)

main_argc_check ==
    /\ Running /\ pc = "argc_check"
    /\ last' = MainCall("argc_check")
    /\ UNCHANGED <<argvVars, cerr, initCalled, registered, transport,
                   exits_wait, teardown>>
    /\ UNCHANGED <<objVars, chanVars>>
    /\ IF argc < 3
       THEN cout' = cout \cup {HelpText} /\ exit(1) /\ pc' = pc
       ELSE cout' = cout /\ status' = status /\ pc' = "init"

(* main: ARDOUR::init, lines 219-222 *)
\* variant: a failed ARDOUR::init exits with status 0
main_init_exit0 ==
    /\ Running /\ pc = "init"
    /\ last' = MainCall("ARDOUR::init")
    /\ initCalled' = TRUE
    /\ UNCHANGED <<argvVars, cout, registered, transport, exits_wait, teardown>>
    /\ UNCHANGED <<objVars, chanVars>>
    /\ \E ok \in BOOLEAN :
         IF ok
         THEN pc' = "load_session" /\ cerr' = cerr /\ status' = status
         ELSE /\ cerr' = cerr \cup {"Ardour failed to initialize"}
              /\ exit(0) /\ pc' = pc

main_init ==
    /\ Running /\ pc = "init"
    /\ last' = MainCall("ARDOUR::init")
    /\ initCalled' = TRUE
    /\ UNCHANGED <<argvVars, cout, registered, transport, exits_wait, teardown>>
    /\ UNCHANGED <<objVars, chanVars>>
    /\ \E ok \in BOOLEAN :
         IF ok
         THEN pc' = "load_session" /\ cerr' = cerr /\ status' = status
         ELSE /\ cerr' = cerr \cup {"Ardour failed to initialize"}
              /\ exit(1) /\ pc' = pc

\* what the catch clauses of lines 228-240 print for a thrown exception
CatchText(e) ==
    CASE e = "failed_constructor"      -> "failed_constructor: "
      [] e = "PortRegistrationFailure" -> "PortRegistrationFailure: "
      [] e = "exception"               -> "exception: "
      [] OTHER                         -> "unknown exception."

Exceptions == {"failed_constructor", "PortRegistrationFailure", "exception", "unknown"}

(* main line 227: the two std::string arguments of load_session are built *)
(* from argv[optind] and argv[optind+1].  argv[argc] is a null pointer and *)
(* argv[argc+1] lies outside argv: building a std::string from them is     *)
(* undefined; the builds either throw std::logic_error, which line 234     *)
(* catches, or fault.                                                      *)
main_load_session ==
    /\ Running /\ pc = "load_session"
    /\ last' = MainCall("load_session")
    /\ UNCHANGED <<argvVars, cout, initCalled, registered, transport,
                   exits_wait, teardown>>
    /\ UNCHANGED <<objVars, chanVars>>
    /\ IF optind + 1 < argc
       THEN pc' = "create" /\ cerr' = cerr /\ status' = status
       ELSE /\ pc' = pc
            /\ \E outcome \in {"logic_error", "fault"} :
                 IF outcome = "logic_error"
                 THEN cerr' = cerr \cup {CatchText("exception")} /\ exit(EXIT_FAILURE)
                 ELSE cerr' = cerr /\ exit(Killed(SIGSEGV))

----------------------------------------------------------------------------
(* load_session, lines 41-65 *)

\* variant: the signal handlers are installed before the engine is set up
load_session_create_signals ==
    /\ Running /\ pc = "create"
    /\ last' = MainCall("AudioEngine::create")
    /\ engine' = "Uninitialized"
    /\ engineCreated' = engineCreated + 1
    /\ registered' = registered \cup Signals
    /\ pc' = "set_backend"
    /\ UNCHANGED <<argvVars, ioVars, chanVars, status, initCalled,
                   transport, exits_wait, teardown, bound, session,
                   engineDestroyed, sessionCreated, sessionDestroyed>>

load_session_create ==
    /\ Running /\ pc = "create"
    /\ last' = MainCall("AudioEngine::create")
    /\ engine' = "Uninitialized"
    /\ engineCreated' = engineCreated + 1
    /\ pc' = "set_backend"
    /\ UNCHANGED <<argvVars, ioVars, chanVars, status, initCalled, registered,
                   transport, exits_wait, teardown, bound, session,
                   engineDestroyed, sessionCreated, sessionDestroyed>>

load_session_set_backend ==
    /\ Running /\ pc = "set_backend"
    /\ last' = MainCall("set_backend")
    /\ UNCHANGED <<argvVars, cout, chanVars, initCalled, registered,
                   transport, exits_wait, teardown, bound, session, engineCreated,
                   engineDestroyed, sessionCreated, sessionDestroyed>>
    /\ \E ok \in BOOLEAN :
         IF ok
         THEN /\ engine' = "BackendSelected" /\ pc' = "start"
              /\ cerr' = cerr /\ status' = status
         ELSE /\ cerr' = cerr \cup {"Cannot set Audio/MIDI engine backend"}
              /\ exit(1) /\ pc' = pc /\ engine' = engine

\* variant: the failure is reported but ::exit (1) is missing
load_session_start_noexit ==
    /\ Running /\ pc = "start"
    /\ last' = MainCall("start")
    /\ UNCHANGED <<argvVars, cout, chanVars, initCalled, registered,
                   transport, exits_wait, teardown, bound, session, engineCreated,
                   engineDestroyed, sessionCreated, sessionDestroyed>>
    /\ \E ok \in BOOLEAN :
         /\ engine' = "Started" /\ pc' = "new_session" /\ status' = status
         /\ cerr' = IF ok THEN cerr
                    ELSE cerr \cup {"Cannot start Audio/MIDI engine"}

load_session_start ==
    /\ Running /\ pc = "start"
    /\ last' = MainCall("start")
    /\ UNCHANGED <<argvVars, cout, chanVars, initCalled, registered,
                   transport, exits_wait, teardown, bound, session, engineCreated,
                   engineDestroyed, sessionCreated, sessionDestroyed>>
    /\ \E ok \in BOOLEAN :
         IF ok
         THEN /\ engine' = "Started" /\ pc' = "new_session"
              /\ cerr' = cerr /\ status' = status
         ELSE /\ cerr' = cerr \cup {"Cannot start Audio/MIDI engine"}
              /\ exit(1) /\ pc' = pc /\ engine' = engine

\* new Session (...) either returns or throws; main's catch clauses exit
load_session_new_session ==
    /\ Running /\ pc = "new_session"
    /\ last' = MainCall("new Session")
    /\ UNCHANGED <<argvVars, cout, chanVars, initCalled, registered,
                   transport, exits_wait, teardown, engine, bound, engineCreated,
                   engineDestroyed, sessionDestroyed>>
    /\ \E r \in {"ok"} \cup Exceptions :
         IF r = "ok"
         THEN /\ session' = "constructed"
              /\ sessionCreated' = sessionCreated + 1
              /\ pc' = "set_session"
              /\ cerr' = cerr /\ status' = status
         ELSE /\ cerr' = cerr \cup {CatchText(r)}
              /\ exit(EXIT_FAILURE)
              /\ pc' = pc /\ session' = session
              /\ sessionCreated' = sessionCreated

load_session_set_session ==
    /\ Running /\ pc = "set_session"
    /\ last' = MainCall("set_session")
    /\ bound' = TRUE
    /\ pc' = "connect_AccessAction"
    /\ UNCHANGED <<argvVars, ioVars, chanVars, status, initCalled, registered,
                   transport, exits_wait, teardown, engine, session, engineCreated,
                   engineDestroyed, sessionCreated, sessionDestroyed>>

----------------------------------------------------------------------------
(* main: registration of the three sources, lines 242-251 *)

main_connect(label, source, next) ==
    /\ Running /\ pc = label
    /\ last' = MainCall(label)
    /\ registered' = registered \cup {source}
    /\ pc' = next
    /\ UNCHANGED <<argvVars, ioVars, objVars, chanVars, status, initCalled,
                   transport, exits_wait, teardown>>

main_connect_AccessAction ==
    main_connect("connect_AccessAction", "AccessAction", "connect_Halted")

main_connect_Halted ==
    main_connect("connect_Halted", "Halted", "signal_SIGINT")

main_signal_SIGINT ==
    main_connect("signal_SIGINT", "SIGINT", "signal_SIGTERM")

\* variant: the transport request of line 251 is missing
main_signal_SIGTERM_norequest ==
    main_connect("signal_SIGTERM", "SIGTERM", "receive")

main_signal_SIGTERM ==
    main_connect("signal_SIGTERM", "SIGTERM", "request_transport_speed")

\* variant: the channel is drained before the wait loop is entered
main_request_transport_speed_drain ==
    /\ Running /\ pc = "request_transport_speed"
    /\ last' = MainCall("request_transport_speed")
    /\ transport' = transport + 1
    /\ pending' = 0
    /\ pc' = "receive"
    /\ UNCHANGED <<argvVars, ioVars, objVars, delivers, status, initCalled,
                   registered, exits_wait, teardown>>

main_request_transport_speed ==
    /\ Running /\ pc = "request_transport_speed"
    /\ last' = MainCall("request_transport_speed")
    /\ transport' = transport + 1
    /\ pc' = "receive"
    /\ UNCHANGED <<argvVars, ioVars, objVars, chanVars, status, initCalled,
                   registered, exits_wait, teardown>>

(* main: do {} while (0 == xthread.receive (msg, true)), lines 253-254 *)
LoopAgain(r) == 0 = r

ResultName(r) == IF r = 1 THEN "token" ELSE IF r = 0 THEN "zero" ELSE "error"

main_receive ==
    /\ Running /\ pc = "receive"
    /\ \E r \in ReceiveResults(pending) :
         /\ pending' = IF r = 1 THEN pending - 1 ELSE pending
         /\ last' = Call("main", "receive", "", "", "", <<ResultName(r)>>)
         /\ IF LoopAgain(r)
            THEN pc' = "receive" /\ exits_wait' = exits_wait
            ELSE pc' = "remove_session" /\ exits_wait' = exits_wait + 1
    /\ UNCHANGED <<argvVars, ioVars, objVars, delivers, status, initCalled,
                   registered, transport, teardown>>

(* main: teardown, lines 256-262 *)
\* variant: remove_session () is not called, the engine keeps the session
main_remove_session_skip ==
    /\ Running /\ pc = "remove_session"
    /\ last' = MainCall("remove_session")
    /\ teardown' = Append(teardown, "remove_session")
    /\ pc' = "delete_session"
    /\ UNCHANGED <<argvVars, ioVars, chanVars, objVars, status, initCalled,
                   registered, transport, exits_wait>>

main_remove_session ==
    /\ Running /\ pc = "remove_session"
    /\ last' = MainCall("remove_session")
    /\ bound' = FALSE
    /\ teardown' = Append(teardown, "remove_session")
    /\ pc' = "delete_session"
    /\ UNCHANGED <<argvVars, ioVars, chanVars, status, initCalled, registered,
                   transport, exits_wait, engine, session, engineCreated,
                   engineDestroyed, sessionCreated, sessionDestroyed>>

\* variant: after deleting the session the controller waits again
main_delete_session_rewait ==
    /\ Running /\ pc = "delete_session"
    /\ last' = MainCall("delete_session")
    /\ session' = "deleted"
    /\ sessionDestroyed' = sessionDestroyed + 1
    /\ teardown' = Append(teardown, "delete_session")
    /\ pc' = "receive"
    /\ UNCHANGED <<argvVars, ioVars, chanVars, status, initCalled, registered,
                   transport, exits_wait, engine, bound, engineCreated,
                   engineDestroyed, sessionCreated>>

main_delete_session ==
    /\ Running /\ pc = "delete_session"
    /\ last' = MainCall("delete_session")
    /\ session' = "deleted"
    /\ sessionDestroyed' = sessionDestroyed + 1
    /\ teardown' = Append(teardown, "delete_session")
    /\ pc' = "engine_stop"
    /\ UNCHANGED <<argvVars, ioVars, chanVars, status, initCalled, registered,
                   transport, exits_wait, engine, bound, engineCreated,
                   engineDestroyed, sessionCreated>>

\* variant: after stopping the engine the controller waits on xthread again
main_engine_stop_rewait ==
    /\ Running /\ pc = "engine_stop"
    /\ last' = MainCall("engine_stop")
    /\ engine' = "Stopped"
    /\ teardown' = Append(teardown, "engine_stop")
    /\ pc' = "receive"
    /\ UNCHANGED <<argvVars, ioVars, chanVars, status, initCalled, registered,
                   transport, exits_wait, bound, session, engineCreated,
                   engineDestroyed, sessionCreated, sessionDestroyed>>

main_engine_stop ==
    /\ Running /\ pc = "engine_stop"
    /\ last' = MainCall("engine_stop")
    /\ engine' = "Stopped"
    /\ teardown' = Append(teardown, "engine_stop")
    /\ pc' = "engine_destroy"
    /\ UNCHANGED <<argvVars, ioVars, chanVars, status, initCalled, registered,
                   transport, exits_wait, bound, session, engineCreated,
                   engineDestroyed, sessionCreated, sessionDestroyed>>

\* variant: AudioEngine::destroy () is not called
main_engine_destroy_leak ==
    /\ Running /\ pc = "engine_destroy"
    /\ last' = MainCall("engine_destroy")
    /\ teardown' = Append(teardown, "engine_destroy")
    /\ pc' = "return"
    /\ UNCHANGED <<argvVars, ioVars, chanVars, objVars, status, initCalled,
                   registered, transport, exits_wait>>

main_engine_destroy ==
    /\ Running /\ pc = "engine_destroy"
    /\ last' = MainCall("engine_destroy")
    /\ engine' = "Destroyed"
    /\ engineDestroyed' = engineDestroyed + 1
    /\ teardown' = Append(teardown, "engine_destroy")
    /\ pc' = "return"
    /\ UNCHANGED <<argvVars, ioVars, chanVars, status, initCalled, registered,
                   transport, exits_wait, bound, session, engineCreated,
                   sessionCreated, sessionDestroyed>>

\* return 0; the ScopedConnectionList con goes out of scope
main_return ==
    /\ Running /\ pc = "return"
    /\ last' = MainCall("return")
    /\ registered' = registered \ {"AccessAction", "Halted"}
    /\ exit(0)
    /\ pc' = "done"
    /\ UNCHANGED <<argvVars, ioVars, objVars, chanVars, initCalled,
                   transport, exits_wait, teardown>>

----------------------------------------------------------------------------
(* The callbacks, lines 67-93.  Each runs in the context that raises it. *)

\* variant: the two comparisons are joined by || instead of &&
access_action_or(action_group, action_item) ==
    /\ IF action_group = "Common" \/ action_item = "Quit"
       THEN /\ CanDeliver(pending)
            /\ pending' = deliver(pending)
            /\ delivers' = delivers + 1
            /\ last' = Call("ui", "access_action", action_group, action_item,
                            "", <<"deliver">>)
       ELSE /\ UNCHANGED chanVars
            /\ last' = Call("ui", "access_action", action_group, action_item,
                            "", <<>>)
    /\ UNCHANGED <<argvVars, ioVars, objVars, ctlVars>>

access_action(action_group, action_item) ==
    /\ IF action_group = "Common" /\ action_item = "Quit"
       THEN /\ CanDeliver(pending)
            /\ pending' = deliver(pending)
            /\ delivers' = delivers + 1
            /\ last' = Call("ui", "access_action", action_group, action_item,
                            "", <<"deliver">>)
       ELSE /\ UNCHANGED chanVars
            /\ last' = Call("ui", "access_action", action_group, action_item,
                            "", <<>>)
    /\ UNCHANGED <<argvVars, ioVars, objVars, ctlVars>>

HaltedText(reason) ==
    IF reason # "NULL" /\ Len(reason) > 0
    THEN "The audio backend has been shutdown: " \o reason
    ELSE "The audio backend has been shutdown."

\* variant: the deliver sits inside the branch that prints the reason
engine_halted_reason_only(reason) ==
    /\ cerr' = cerr \cup {HaltedText(reason)}
    /\ IF reason # "NULL" /\ Len(reason) > 0
       THEN /\ CanDeliver(pending)
            /\ pending' = deliver(pending)
            /\ delivers' = delivers + 1
            /\ last' = Call("engine", "engine_halted", "", "", reason,
                            <<"cerr", "deliver">>)
       ELSE /\ UNCHANGED chanVars
            /\ last' = Call("engine", "engine_halted", "", "", reason,
                            <<"cerr">>)
    /\ UNCHANGED <<argvVars, cout, objVars, ctlVars>>

\* variant: the halt callback also marks the engine stopped
engine_halted_stops(reason) ==
    /\ cerr' = cerr \cup {HaltedText(reason)}
    /\ CanDeliver(pending)
    /\ pending' = deliver(pending)
    /\ delivers' = delivers + 1
    /\ engine' = "Stopped"
    /\ last' = Call("engine", "engine_halted", "", "", reason,
                    <<"cerr", "deliver">>)
    /\ UNCHANGED <<argvVars, cout, ctlVars, bound, session, engineCreated,
                   engineDestroyed, sessionCreated, sessionDestroyed>>

engine_halted(reason) ==
    /\ cerr' = cerr \cup {HaltedText(reason)}
    /\ CanDeliver(pending)
    /\ pending' = deliver(pending)
    /\ delivers' = delivers + 1
    /\ last' = Call("engine", "engine_halted", "", "", reason,
                    <<"cerr", "deliver">>)
    /\ UNCHANGED <<argvVars, cout, objVars, ctlVars>>

\* variant: the handler prints but does not deliver
wearedone_nodeliver(sig) ==
    /\ cerr' = cerr \cup {"caught signal - terminating."}
    /\ last' = Call("signal", "wearedone", "", "", sig, <<"cerr">>)
    /\ UNCHANGED <<argvVars, cout, objVars, chanVars, ctlVars>>

wearedone(sig) ==
    /\ cerr' = cerr \cup {"caught signal - terminating."}
    /\ CanDeliver(pending)
    /\ pending' = deliver(pending)
    /\ delivers' = delivers + 1
    /\ last' = Call("signal", "wearedone", "", "", sig, <<"cerr", "deliver">>)
    /\ UNCHANGED <<argvVars, cout, objVars, ctlVars>>

----------------------------------------------------------------------------
(* The sources that raise the callbacks *)

\* BasicUI::AccessAction is emitted by a control surface
AccessAction ==
    /\ Running /\ delivers < MaxDelivers
    /\ \E g \in Groups, i \in Items :
         IF "AccessAction" \in registered
         THEN access_action(g, i)
         ELSE /\ last' = Call("ui", "AccessAction", g, i, "", <<>>)
              /\ UNCHANGED <<argvVars, ioVars, objVars, chanVars, ctlVars>>

\* AudioEngine::Halted is emitted by the engine's thread while it runs
Halted ==
    /\ Running /\ delivers < MaxDelivers
    /\ engine = "Started"
    /\ \E reason \in Reasons :
         IF "Halted" \in registered
         THEN engine_halted(reason)
         ELSE /\ last' = Call("engine", "Halted", "", "", reason, <<>>)
              /\ UNCHANGED <<argvVars, ioVars, objVars, chanVars, ctlVars>>

\* SIGINT or SIGTERM reaches the process: the handler installed by
\* signal() runs, or the default disposition terminates the process
Signal ==
    /\ Running /\ delivers < MaxDelivers
    /\ \E sig \in Signals :
         IF sig \in registered
         THEN wearedone(sig)
         ELSE /\ exit(Killed(SigNum(sig)))
              /\ last' = Call("signal", "SIG_DFL", "", "", sig, <<>>)
              /\ UNCHANGED <<argvVars, ioVars, objVars, chanVars, pc,
                             initCalled, registered, transport, exits_wait,
                             teardown>>

----------------------------------------------------------------------------
Controller ==
    \/ main_getopt
    \/ main_argc_check
    \/ main_init
    \/ main_load_session
    \/ load_session_create
    \/ load_session_set_backend
    \/ load_session_start
    \/ load_session_new_session
    \/ load_session_set_session
    \/ main_connect_AccessAction
    \/ main_connect_Halted
    \/ main_signal_SIGINT
    \/ main_signal_SIGTERM
    \/ main_request_transport_speed
    \/ main_remove_session
    \/ main_delete_session
    \/ main_engine_stop
    \/ main_engine_destroy
    \/ main_return

Next ==
    \/ Controller
    \/ main_receive
    \/ AccessAction
    \/ Halted
    \/ Signal

Spec == Init /\ [][Next]_vars

\* The controller thread keeps running, and a receive call returns once a
\* byte is pending.
FairSpec ==
    /\ Spec
    /\ WF_vars(Controller)
    /\ WF_vars(main_receive /\ pending > 0)

----------------------------------------------------------------------------
(* Derived notions *)

StartupPcs  == {"getopt", "argc_check", "init", "load_session", "create",
                "set_backend", "start", "new_session", "set_session"}
RegisterPcs == {"connect_AccessAction", "connect_Halted", "signal_SIGINT",
                "signal_SIGTERM", "request_transport_speed"}
TeardownPcs == {"remove_session", "delete_session", "engine_stop", "engine_destroy"}

Lifecycle ==
    CASE pc \in {"getopt", "argc_check", "init", "load_session", "create",
                 "set_backend", "start"}        -> "Init"
      [] pc \in {"new_session", "set_session"}  -> "EngineReady"
      [] pc \in RegisterPcs                     -> "SessionLoaded"
      [] pc = "receive"                         -> "Running"
      [] pc \in TeardownPcs                     -> "ShuttingDown"
      [] OTHER                                  -> "Terminated"

AllRegistered == registered = {"AccessAction", "Halted", "SIGINT", "SIGTERM"}

IsPrefix(s, t) == Len(s) <= Len(t) /\ \A i \in 1..Len(s) : s[i] = t[i]

TypeOK ==
    /\ pending \in 0..PipeCapacity
    /\ delivers \in 0..MaxDelivers
    /\ status \in {NoExit, 0, 1, Killed(SIGINT), Killed(SIGTERM), Killed(SIGSEGV)}
    /\ engine \in {"none", "Uninitialized", "BackendSelected", "Started",
                   "Stopped", "Destroyed"}
    /\ session \in {"null", "constructed", "deleted"}

----------------------------------------------------------------------------
(* Claims *)

\* the teardown log expected at each position of the controller
ExpectedTeardown ==
    CASE pc = "delete_session" -> SubSeq(TeardownSeq, 1, 1)
      [] pc = "engine_stop"    -> SubSeq(TeardownSeq, 1, 2)
      [] pc = "engine_destroy" -> SubSeq(TeardownSeq, 1, 3)
      [] pc \in {"return", "done"} -> TeardownSeq
      [] OTHER                 -> <<>>

\* C1: whatever sources fire, however often and in whatever interleaving,
\* the controller leaves the receive wait at most once and runs the four
\* teardown steps exactly once each, in the order remove_session, delete
\* session, engine stop, engine destroy: the log of executed steps is at
\* every position exactly the prefix of that order the position calls for.
C1_TeardownOnceInOrder ==
    /\ exits_wait <= 1
    /\ teardown = ExpectedTeardown
    /\ (pc \in TeardownPcs \cup {"return", "done"} => exits_wait = 1)

\* C1 witness: teardown has completed although further deliveries arrived
\* after the one that ended the wait
C1_Witness ==
    /\ pc = "done" /\ status = 0
    /\ teardown = TeardownSeq
    /\ delivers >= 2 /\ pending >= 1

\* C2: no lost wakeup.  Once the sources are registered and a deliver has
\* completed, also one that completed before the first receive call, the
\* controller reaches Terminated; it never stays in receive with a byte
\* pending.
C2_NoLostWakeup ==
    /\ (AllRegistered /\ delivers > 0) ~> (pc = "done")
    /\ (pc = "receive" /\ pending > 0) ~> (pc # "receive")

\* C2 witness: a deliver completed between registration and the wait loop
C2_Witness ==
    /\ pc = "request_transport_speed" /\ AllRegistered
    /\ delivers > 0 /\ pending > 0

\* C3: teardown starts only after at least one source called deliver; a
\* receive call that returns zero or an error never starts teardown.
C3_TeardownOnlyAfterDeliver ==
    (pc \in TeardownPcs \cup {"return", "done"}) => delivers >= 1

\* C4: access_action calls deliver exactly once if and only if the group
\* is "Common" and the item is "Quit"; for every other pair it changes
\* nothing (no delivery, no teardown step, no change of the controller,
\* the session or the engine).
C4_AccessActionQuitOnly ==
    [][last'.op = "access_action" =>
         /\ UNCHANGED <<argvVars, ioVars, objVars, ctlVars>>
         /\ IF last'.group = "Common" /\ last'.item = "Quit"
            THEN delivers' = delivers + 1 /\ last'.effects = <<"deliver">>
            ELSE UNCHANGED chanVars /\ last'.effects = <<>>]_vars

\* C4 witness: the quit action was raised and delivered
C4_Witness ==
    /\ last.op = "access_action"
    /\ last.group = "Common" /\ last.item = "Quit"
    /\ last.effects = <<"deliver">> /\ pending >= 1

\* texts main prints when a startup step fails
StartupErrors ==
    {"Ardour failed to initialize", "Cannot set Audio/MIDI engine backend",
     "Cannot start Audio/MIDI engine"} \cup {CatchText(e) : e \in Exceptions}

StartupFailed == cerr \cap StartupErrors # {}

\* C5: when a startup step fails (ARDOUR::init, set_backend, engine start,
\* Session construction throwing) the process has exited with a non-zero
\* status, no source is registered, no transport request was issued,
\* receive was never called and no teardown step was executed.
C5_StartupFailureExits ==
    StartupFailed =>
        /\ status \notin {NoExit, 0}
        /\ pc \in StartupPcs
        /\ registered = {}
        /\ transport = 0
        /\ exits_wait = 0
        /\ teardown = <<>>
        /\ bound = FALSE
        /\ engineDestroyed = 0 /\ sessionDestroyed = 0
        /\ engine \notin {"Stopped", "Destroyed"}

\* C5 witness: the Session constructor threw with the engine started
C5_Witness ==
    /\ CatchText("PortRegistrationFailure") \in cerr
    /\ engine = "Started"
    /\ status = EXIT_FAILURE

\* C6 as claimed: the process exits with status 0 only from Terminated,
\* after all four teardown steps; a failed startup exits non-zero.
C6_ExitZeroOnlyTerminated ==
    /\ status = 0 => (pc = "done" /\ teardown = TeardownSeq /\ transport = 1)
    /\ StartupFailed => status # 0

\* C6 amended: the process exits with status 0 only from Terminated, after
\* all four teardown steps, or from the -v and -h options during option
\* parsing, before ARDOUR::init and before the engine exists; a failed
\* startup exits non-zero.
C6_ExitZeroTerminatedOrInfo ==
    /\ status = 0 =>
         \/ (pc = "done" /\ teardown = TeardownSeq /\ transport = 1)
         \/ /\ pc = "getopt"
            /\ cout \cap {VersionText, HelpText} # {}
            /\ ~initCalled /\ engine = "none" /\ teardown = <<>>
    /\ StartupFailed => status # 0

\* C6 witness: exit with status 0 from Terminated
C6_Witness ==
    status = 0 /\ pc = "done" /\ engine = "Destroyed" /\ session = "deleted"

\* C7: once option parsing is over, a command line with fewer than two
\* positional arguments, whatever options precede them, makes main print
\* the help text and exit with status 1, and the engine is never created.
C7_FewPositionalsHelp ==
    (npos < 2 /\ pc # "getopt") =>
        /\ engine = "none" /\ engineCreated = 0
        /\ (status \notin {NoExit, Killed(SIGINT), Killed(SIGTERM)}
              => status = 1 /\ HelpText \in cout)

\* C8: the signal handler performs exactly one deliver and nothing else:
\* no output and no other state change.
C8_HandlerOnlyDelivers ==
    [][last'.op = "wearedone" =>
         /\ delivers' = delivers + 1
         /\ last'.effects = <<"deliver">>
         /\ UNCHANGED <<argvVars, ioVars, objVars, ctlVars>>]_vars

\* C9: engine_halted, access_action and wearedone change neither the
\* session, the engine nor the controller's state, and execute no teardown
\* step; every teardown step is executed by the controller thread.
C9_TriggersOnlyDeliver ==
    [][/\ last'.op \in {"access_action", "engine_halted", "wearedone"}
            => UNCHANGED <<objVars, ctlVars>>
       /\ teardown' # teardown => last'.ctx = "main"]_vars

\* C9 witness: the halt callback ran while teardown was in progress
C9_Witness ==
    /\ last.op = "engine_halted"
    /\ pc = "delete_session" /\ teardown = <<"remove_session">>
    /\ engine = "Started"

Position(step) == CHOOSE i \in 1..Len(teardown) : teardown[i] = step

\* C10 as claimed: Engine and Session are created at most once, and at
\* process exit each created one has been destroyed exactly once, Session
\* before Engine.
C10_DestroyedAtExit ==
    /\ engineCreated <= 1 /\ sessionCreated <= 1
    /\ status # NoExit =>
         engineDestroyed = engineCreated /\ sessionDestroyed = sessionCreated

\* C10 amended: Engine and Session are created at most once and destroyed
\* at most once, the Session before the Engine; at a process exit with
\* status 0 each created one has been destroyed exactly once.
C10_DestroyedAtNormalExit ==
    /\ engineCreated <= 1 /\ sessionCreated <= 1
    /\ engineDestroyed <= engineCreated /\ sessionDestroyed <= sessionCreated
    /\ engineDestroyed = 1 =>
         /\ sessionDestroyed = 1
         /\ Position("delete_session") < Position("engine_destroy")
    /\ status = 0 =>
         engineDestroyed = engineCreated /\ sessionDestroyed = sessionCreated

\* C10 witness: normal exit with one Engine and one Session, both destroyed
C10_Witness ==
    /\ status = 0
    /\ engineCreated = 1 /\ engineDestroyed = 1
    /\ sessionCreated = 1 /\ sessionDestroyed = 1

\* C11: once the controller has left the wait (ShuttingDown) it never
\* calls receive again and never blocks: whatever deliveries, halt
\* notifications or signals arrive meanwhile, its next statement can always
\* be executed and the teardown runs on to Terminated.  Outside the receive
\* call the controller thread is never blocked.
C11_TeardownRunsToCompletion ==
    /\ [][(pc \in TeardownPcs \cup {"return", "done"}) => (pc' # "receive")]_vars
    /\ [](Running /\ pc \notin {"receive", "done"} => ENABLED Controller)
    /\ (pc \in TeardownPcs) ~> (pc = "done" /\ teardown = TeardownSeq)

\* C11 witness: a signal was handled while teardown was in progress
C11_Witness ==
    /\ pc = "engine_destroy" /\ last.op = "wearedone"
    /\ engine = "Stopped" /\ delivers >= 2

\* the engine states in the order the engine passes through them
EngineRank(e) ==
    CASE e = "none"            -> 0
      [] e = "Uninitialized"   -> 1
      [] e = "BackendSelected" -> 2
      [] e = "Started"         -> 3
      [] e = "Stopped"         -> 4
      [] e = "Destroyed"       -> 5

\* C12: the Session is never destroyed while it is bound to the Engine;
\* the Engine's state only advances one state at a time along
\* Uninitialized, BackendSelected, Started, Stopped, Destroyed; stop is
\* applied to a Started engine and destroy to a Stopped one, both only
\* after the Session was unbound and destroyed.
C12_EngineOrder ==
    /\ [](~(session = "deleted" /\ bound))
    /\ [][/\ session' # session /\ session' = "deleted" => ~bound
          /\ engine' # engine => EngineRank(engine') = EngineRank(engine) + 1
          /\ engine' # engine /\ engine' = "Stopped" =>
               engine = "Started" /\ ~bound /\ session = "deleted"
          /\ engine' # engine /\ engine' = "Destroyed" =>
               engine = "Stopped" /\ ~bound /\ session = "deleted"]_vars

\* C12 witness: the engine has been destroyed after the session was
\* unbound and deleted
C12_Witness ==
    /\ engine = "Destroyed" /\ session = "deleted" /\ ~bound
    /\ pc = "return"

\* C13: a deliver call never blocks: in every state of the running
\* process, whatever the number of unconsumed deliveries and wherever the
\* controller is (waiting, tearing down or done with teardown), each of
\* the three callbacks can run its deliver to completion.
C13_DeliverNeverBlocks ==
    Running =>
        /\ ENABLED access_action("Common", "Quit")
        /\ ENABLED engine_halted("")
        /\ ENABLED wearedone("SIGINT")

\* C13 witness: a deliver completed on a full channel after the controller
\* had finished the teardown
C13_Witness ==
    /\ pc = "return" /\ last.op = "wearedone"
    /\ pending = PipeCapacity /\ delivers >= PipeCapacity + 2

\* C14: every call of engine_halted, whether the reason is a non-empty
\* string, the empty string or a null pointer, first writes the diagnostic
\* text to cerr and then performs exactly one deliver.
C14_HaltedLogsThenDelivers ==
    [][last'.op = "engine_halted" =>
         /\ last'.effects = <<"cerr", "deliver">>
         /\ HaltedText(last'.reason) \in cerr'
         /\ delivers' = delivers + 1
         /\ pending' = deliver(pending)]_vars

\* C14 witness: a halt notification with a null reason was logged and
\* delivered
C14_Witness ==
    /\ last.op = "engine_halted" /\ last.reason = "NULL"
    /\ "The audio backend has been shutdown." \in cerr
    /\ delivers = 1 /\ pending = 1

LifecycleRank(l) ==
    CASE l = "Init"          -> 0
      [] l = "EngineReady"   -> 1
      [] l = "SessionLoaded" -> 2
      [] l = "Running"       -> 3
      [] l = "ShuttingDown"  -> 4
      [] l = "Terminated"    -> 5

\* C15: the lifecycle state only moves forward through Init, EngineReady,
\* SessionLoaded, Running, ShuttingDown, Terminated, one state at a time;
\* the transport request is issued exactly once, after all sources are
\* registered and as the step that enters Running (before the first
\* receive call), also when a delivery is already pending.
C15_LifecycleForward ==
    /\ [](transport = (IF LifecycleRank(Lifecycle) >= 3 THEN 1 ELSE 0))
    /\ [][/\ LifecycleRank(Lifecycle') \in
               {LifecycleRank(Lifecycle), LifecycleRank(Lifecycle) + 1}
          /\ transport' # transport =>
               /\ AllRegistered
               /\ Lifecycle = "SessionLoaded" /\ Lifecycle' = "Running"
               /\ exits_wait = 0]_vars

\* C15 witness: Running was entered with the request issued although a
\* delivery had arrived between registration and the request
C15_Witness ==
    /\ pc = "receive" /\ last.op = "request_transport_speed"
    /\ transport = 1 /\ pending >= 1 /\ exits_wait = 0

\* C16 as claimed: once the engine is started, every halt notification and
\* every termination signal results in a delivery on the channel (and the
\* process lives on to run the teardown).
C16_NoTriggerLost ==
    [][(engine = "Started" /\ last'.ctx \in {"engine", "signal"}) =>
         (delivers' = delivers + 1 /\ status' = NoExit)]_vars

\* C16 amended: a halt notification raised once Halted is connected and a
\* signal arriving once its handler is installed result in a delivery; a
\* halt raised earlier is ignored and a signal arriving earlier terminates
\* the process without any teardown step.  Once all sources are
\* registered a delivered trigger leads to the full teardown sequence.
C16_RegisteredTriggerDelivered ==
    /\ [][/\ (last'.ctx = "engine" /\ "Halted" \in registered)
               => delivers' = delivers + 1
          /\ (last'.ctx = "signal" /\ last'.reason \in registered)
               => (delivers' = delivers + 1 /\ status' = NoExit)
          /\ (last'.ctx = "engine" /\ "Halted" \notin registered)
               => UNCHANGED <<chanVars, ctlVars>>
          /\ (last'.ctx = "signal" /\ last'.reason \notin registered)
               => /\ status' = Killed(SigNum(last'.reason))
                  /\ UNCHANGED <<chanVars, teardown>>]_vars
    /\ (AllRegistered /\ last.ctx \in {"engine", "signal"} /\ delivers > 0)
         ~> (pc = "done" /\ teardown = TeardownSeq)

\* C16 witness: a halt was delivered right after Halted was connected,
\* before the signal handlers were installed
C16_Witness ==
    /\ last.op = "engine_halted" /\ pc = "signal_SIGINT"
    /\ delivers = 1 /\ pending = 1

\* C17 as claimed: no deliver happens before the Session is constructed
\* and bound to a Started engine; in every state where a teardown step
\* executes the Session pointer is non-null (the Session not yet destroyed
\* at the unbind step) and the Engine is in state Started.
C17_TeardownOnStartedEngine ==
    /\ delivers > 0 =>
         (sessionCreated = 1 /\ pc \notin StartupPcs /\ EngineRank(engine) >= 3)
    /\ pc \in TeardownPcs =>
         /\ session # "null"
         /\ (pc = "remove_session" => session = "constructed" /\ bound)
         /\ engine = "Started"

\* C17 amended: as claimed, except that the Engine is in state Started at
\* the unbind, delete-session and stop steps and in state Stopped at the
\* destroy step.
C17_TeardownOnLiveObjects ==
    /\ delivers > 0 =>
         (sessionCreated = 1 /\ pc \notin StartupPcs /\ EngineRank(engine) >= 3)
    /\ pc \in TeardownPcs =>
         /\ session # "null"
         /\ (pc = "remove_session" => session = "constructed" /\ bound)
         /\ engine = (IF pc = "engine_destroy" THEN "Stopped" ELSE "Started")

\* C17 witness: the unbind step is about to run after a delivery, on a
\* constructed, bound Session and a Started engine
C17_Witness ==
    /\ pc = "remove_session" /\ delivers >= 1 /\ exits_wait = 1
    /\ session = "constructed" /\ bound /\ engine = "Started"

====
